---- MODULE Spec2Model ----
(***************************************************************************)
(* The message-framing layer of polyfuse (src/polyfuse/src/io.rs):         *)
(*   - WriterExt::send_msg / SendMsg::poll, the response encoder;          *)
(*   - RequestReader::read_request / ReadRequest::poll, the resumable      *)
(*     request decoder, with InHeader::opcode and InHeader::arg_len.       *)
(*                                                                         *)
(* Machine integers keep their width.  A u64/usize is a sequence of four   *)
(* 16-bit limbs, least significant first; a u32 is two limbs.  An          *)
(* Option<T> is a sequence of length 0 (None) or 1 (Some).                 *)
(***************************************************************************)
EXTENDS Integers, Sequences, FiniteSets, TLC

\* ------------------------------------------------------------------ bounds
MaxChunks == 3
MaxSendPending == 1
MaxReady == 3
MaxPending == 1
MaxPairReady == 2

\* ------------------------------------------------- constants of the program
InHeaderSize == 40
OutHeaderSize == 16
WriteInSize == 40
NotifyRetrieveInSize == 40
FUSE_WRITE == 16
FUSE_NOTIFY_REPLY == 41
EINVAL == 22

VARIABLES
    overflow_checks,  \* build setting: TRUE = arithmetic overflow panics
    snd_st,           \* "none", "created", "pending", "ok", "err", "panic"
    snd_args,         \* Option of the arguments send_msg was called with
    snd_header,       \* Option<OutHeader> of the SendMsg
    snd_data,         \* the chunk list the SendMsg borrows
    snd_ret,          \* what the last SendMsg::poll returned
    calls,            \* the poll_write_msg calls issued: <<header, payload>>
    wire,             \* bytes the Sender has put on the wire
    log,              \* tracing::debug! records emitted
    state,            \* ReadRequest.state of each decoder
    header,           \* ReadRequest.header: Option<InHeader>, as its 40 bytes
    arg,              \* ReadRequest.arg: Option<Vec<u8>> as [cap, len, bytes]
    pc,               \* "idle", "polling" (inside poll), "panicked", "dropped"
    rets,             \* what the polls of each decoder returned, in order
    recvs,            \* the poll_read calls of each decoder and their results
    stream,           \* the ready results the channel delivers, in order
    al_in,            \* Option of the header InHeader::arg_len was called on
    al_out            \* Option of what that call produced

sendVars == <<snd_st, snd_args, snd_header, snd_data, snd_ret, calls, wire, log>>

decVars == <<state, header, arg, pc, rets, recvs, stream>>

pureVars == <<al_in, al_out>>

\* ------------------------------------------------------------ wide integers
Limb == 256 * 256

W(n) == <<n % Limb, n \div Limb, 0, 0>>

RECURSIVE AddFrom(_, _, _, _)
AddFrom(a, b, i, c) ==
    IF i > Len(a) THEN <<c>>
    ELSE LET s == a[i] + b[i] + c
         IN  <<s % Limb>> \o AddFrom(a, b, i + 1, s \div Limb)

RECURSIVE SubFrom(_, _, _, _)
SubFrom(a, b, i, br) ==
    IF i > Len(a) THEN <<br>>
    ELSE LET s == a[i] - b[i] - br
         IN  IF s < 0 THEN <<s + Limb>> \o SubFrom(a, b, i + 1, 1)
             ELSE <<s>> \o SubFrom(a, b, i + 1, 0)

\* usize `+`: panics on overflow when overflow checks are on, wraps otherwise.
usize_add(a, b) ==
    LET r == AddFrom(a, b, 1, 0)
    IN  [panic |-> overflow_checks /\ r[5] = 1, val |-> SubSeq(r, 1, 4)]

\* usize `-`: panics on underflow when overflow checks are on, wraps otherwise.
usize_sub(a, b) ==
    LET r == SubFrom(a, b, 1, 0)
    IN  [panic |-> overflow_checks /\ r[5] = 1, val |-> SubSeq(r, 1, 4)]

\* u32::try_from(usize)
u32_try_from(x) == [ok |-> x[3] = 0 /\ x[4] = 0, val |-> <<x[1], x[2]>>]

\* The bits of an i32 as a u32 (two's complement).
i32_bits(e) ==
    IF e >= 0 THEN <<e % Limb, e \div Limb>>
    ELSE LET m == -e - 1
         IN  <<Limb - 1 - (m % Limb), Limb - 1 - (m \div Limb)>>

\* The in-memory bytes of an integer on the (little-endian) target.
RECURSIVE le_bytes(_)
le_bytes(a) ==
    IF a = <<>> THEN <<>>
    ELSE <<Head(a) % 256, Head(a) \div 256>> \o le_bytes(Tail(a))

\* ------------------------------------------------------------------ chunks
\* A payload chunk (&[u8]) is its length (a usize) and its content; the
\* content of a chunk is the byte pattern seed, seed+1, ... (mod 256).
chunk_len(c) == c.len

chunk_bytes(c) == [i \in 1..c.len[1] |-> (c.seed + i - 1) % 256]

Materialisable(data) ==
    \A i \in 1..Len(data) :
        data[i].len[2] = 0 /\ data[i].len[3] = 0 /\ data[i].len[4] = 0

RECURSIVE concat(_)
concat(data) ==
    IF data = <<>> THEN <<>> ELSE chunk_bytes(Head(data)) \o concat(Tail(data))

ChunkSet ==
    { [len |-> W(0), seed |-> 0],
      [len |-> W(2), seed |-> 104],
      [len |-> W(5), seed |-> 255],
      [len |-> <<65519, 65535, 0, 0>>, seed |-> 0],        \* 2^32 - 17
      [len |-> <<65520, 65535, 0, 0>>, seed |-> 0],        \* 2^32 - 16
      [len |-> <<65535, 65535, 65535, 32767>>, seed |-> 0] \* isize::MAX
    }

RECURSIVE SeqsUpTo(_, _)
SeqsUpTo(S, n) ==
    IF n = 0 THEN {<<>>}
    ELSE LET T == SeqsUpTo(S, n - 1)
         IN  T \cup {Append(t, x) : t \in {u \in T : Len(u) = n - 1}, x \in S}

UniqueSet == {W(0), W(42), <<65535, 65535, 65535, 65535>>}
ErrorSet == {0, 4, -2, -22}
TransportErrors == {4, 19}

\* ----------------------------------------------------------- the encoder
\* data.iter().map(|t| t.len()).sum()
RECURSIVE sum_lens(_, _)
sum_lens(data, acc) ==
    IF data = <<>> \/ acc.panic THEN acc
    ELSE sum_lens(Tail(data), usize_add(acc.val, chunk_len(Head(data))))

data_len(data) == sum_lens(data, [panic |-> FALSE, val |-> W(0)])

\* A send_msg whose length leaves out the header: len = data_len only.
msg_len_without_header(data) ==
    LET dl == data_len(data)
        cv == u32_try_from(dl.val)
    IN  [panic |-> dl.panic \/ ~cv.ok, val |-> cv.val]

\* u32::try_from(mem::size_of::<fuse_out_header>() + data_len).unwrap()
\* The result is [panic, val]; val is the u32 that becomes the header's len.
msg_len(data) ==
    LET dl  == data_len(data)
        tot == usize_add(W(OutHeaderSize), dl.val)
        cv  == u32_try_from(tot.val)
    IN  [panic |-> dl.panic \/ tot.panic \/ ~cv.ok, val |-> cv.val]

\* A fuse_out_header declared with its fields in the order unique, error, len.
OutHeader_as_ref_unique_first(h) ==
    le_bytes(h.unique) \o le_bytes(i32_bits(h.error)) \o le_bytes(h.len)

\* OutHeader::as_ref: the bytes of fuse_out_header { len, error, unique }.
OutHeader_as_ref(h) ==
    le_bytes(h.len) \o le_bytes(i32_bits(h.error)) \o le_bytes(h.unique)

send_msg(unique, error, data) ==
    /\ snd_st = "none"
    /\ snd_args' = <<[unique |-> unique, error |-> error, data |-> data]>>
    /\ LET len == msg_len(data)
       IN  IF len.panic
           THEN /\ snd_st' = "panic"
                /\ UNCHANGED <<snd_header, snd_data>>
           ELSE /\ snd_st' = "created"
                /\ snd_header' = <<[unique |-> unique, error |-> error, len |-> len.val]>>
                /\ snd_data' = data
    /\ UNCHANGED <<snd_ret, calls, wire, log, overflow_checks, decVars, pureVars>>

\* What the Sender (Writer::poll_write_msg) may answer.
SenderResults(hdr, payload) ==
    {[kind |-> "pending", err |-> 0]}
        \cup {[kind |-> "err", err |-> e] : e \in TransportErrors}
        \cup (IF Materialisable(payload) THEN {[kind |-> "ok", err |-> 0]} ELSE {})

\* The Sender's effect on the wire for one call that answers r.
poll_write_msg(w, hdr, payload, r) ==
    IF r.kind = "ok" THEN w \o OutHeader_as_ref(hdr) \o concat(payload) ELSE w

\* A poll that emits the debug record whatever the Sender answered.
debug_record_always(l, hdr, r) ==
    Append(l, [unique |-> hdr.unique, error |-> hdr.error])

\* The tracing::debug! record, reached only when the `?` on the Sender's
\* answer did not return: the answer was Ready(Ok).
debug_record(l, hdr, r) ==
    IF r.kind = "ok" THEN Append(l, [unique |-> hdr.unique, error |-> hdr.error]) ELSE l

SendMsg_poll ==
    /\ snd_st \in {"created", "pending"}
    /\ \E r \in SenderResults(snd_header[1], snd_data) :
        /\ r.kind = "pending" => Len(calls) < MaxSendPending
        /\ calls' = Append(calls, [header |-> snd_header[1], payload |-> snd_data])
        /\ wire' = poll_write_msg(wire, snd_header[1], snd_data, r)
        /\ snd_ret' = <<r>>
        /\ snd_st' = r.kind
        /\ log' = debug_record(log, snd_header[1], r)
    /\ UNCHANGED <<snd_args, snd_header, snd_data, overflow_checks, decVars, pureVars>>

\* --------------------------------------------------------------- headers
\* fuse_in_header: byte offsets of its fields.
fuse_in_header_layout ==
    [len |-> 0, opcode |-> 4, unique |-> 8, nodeid |-> 16,
     uid |-> 24, gid |-> 28, pid |-> 32, padding |-> 36]

\* The opcodes fuse_opcode::try_from recognizes.
KnownOpcodes == ((1..47) \ {7, 19}) \cup {4096}

\* A u32 field read from the header's bytes at a byte offset.
u32_at(h, off) == <<h[off + 1] + 256 * h[off + 2], h[off + 3] + 256 * h[off + 4]>>

\* InHeader::len
InHeader_len(h) == u32_at(h, fuse_in_header_layout.len)

\* InHeader::opcode: Some(raw) for a recognized code, None otherwise.
InHeader_opcode(h) ==
    LET raw == u32_at(h, fuse_in_header_layout.opcode)
    IN  IF raw[2] = 0 /\ raw[1] \in KnownOpcodes THEN <<raw[1]>> ELSE <<>>

\* InHeader::arg_len, as [panic, val]; val is a usize.
arg_len(h) ==
    LET op == InHeader_opcode(h)
    IN  IF op = <<FUSE_WRITE>> THEN [panic |-> FALSE, val |-> W(WriteInSize)]
        ELSE IF op = <<FUSE_NOTIFY_REPLY>>
        THEN [panic |-> FALSE, val |-> W(NotifyRetrieveInSize)]
        ELSE usize_sub(InHeader_len(h) \o <<0, 0>>, W(InHeaderSize))

\* A header record left as the allocator handed it out.
zeroed_uninit == [i \in 1..InHeaderSize |-> 170]

\* mem::MaybeUninit::zeroed().assume_init()
zeroed == [i \in 1..InHeaderSize |-> 0]

\* The values a byte of freshly allocated, uninitialised memory may hold.
Garbage == {0, 170}

\* A Vec::with_capacity that allocates room for one more element.
Vec_with_capacity_plus_one(n, g) ==
    CASE n[4] >= 32768 ->
            [panic |-> TRUE, vec |-> [cap |-> 0, len |-> 0, bytes |-> <<>>]]
      [] n[2] = 0 /\ n[3] = 0 /\ n[4] = 0 ->
            [panic |-> FALSE,
             vec |-> [cap |-> n[1] + 1, len |-> 0, bytes |-> [i \in 1..(n[1] + 1) |-> g]]]

\* Vec::with_capacity(n), n a usize, in memory holding g: panics ("capacity
\* overflow") when n exceeds isize::MAX; otherwise an empty vector with
\* capacity exactly n.  Only capacities below 2^16 are written out.
Vec_with_capacity(n, g) ==
    CASE n[4] >= 32768 ->
            [panic |-> TRUE, vec |-> [cap |-> 0, len |-> 0, bytes |-> <<>>]]
      [] n[2] = 0 /\ n[3] = 0 /\ n[4] = 0 ->
            [panic |-> FALSE,
             vec |-> [cap |-> n[1], len |-> 0, bytes |-> [i \in 1..n[1] |-> g]]]

\* Vec::set_len
set_len(v, n) == [v EXCEPT !.len = n]

\* A Guard whose drop gives the buffer's memory back.
Guard_drop_frees(v) == [cap |-> 0, len |-> 0, bytes |-> <<>>]

\* A Guard whose drop leaves the length as it is.
Guard_drop_keeps_len(v) == v

\* Guard::drop
Guard_drop(v) == set_len(v, 0)

\* The vector's contents: its first len bytes.
Vec_contents(v) == SubSeq(v.bytes, 1, v.len)

\* --------------------------------------------------------------- channel
Min(a, b) == IF a <= b THEN a ELSE b

Pending == [kind |-> "pending", err |-> 0, data |-> <<>>]

\* AsyncRead::poll_read into buf for a ready result holding data: the bytes
\* that fit are copied to the front of buf, and their number is reported.
poll_read(buf, item) ==
    LET count == Min(Len(item.data), Len(buf))
    IN  [count |-> count,
         buf |-> [i \in 1..Len(buf) |-> IF i <= count THEN item.data[i] ELSE buf[i]]]

\* The bytes of a request header with the given length, opcode and unique.
HeaderBytes(len, opcode, unique) ==
    le_bytes(<<len, 0>>) \o le_bytes(<<opcode, 0>>) \o le_bytes(W(unique))
        \o le_bytes(W(1)) \o le_bytes(<<1000, 0>>) \o le_bytes(<<1000, 0>>)
        \o le_bytes(<<77, 0>>) \o le_bytes(<<0, 0>>)

Datas ==
    { HeaderBytes(40, 1, 42),                  \* FUSE_LOOKUP, no argument
      HeaderBytes(42, 1, 42),                  \* two argument bytes
      HeaderBytes(43, 9999, 26),               \* unrecognized opcode
      HeaderBytes(4136, FUSE_WRITE, 42),
      HeaderBytes(8, 1, 42),                   \* length below the header size
      SubSeq(HeaderBytes(42, 1, 42), 1, 10),   \* ten bytes
      <<>>, <<9>>, <<7, 8>>, <<7, 8, 9>> }

Items ==
    {[kind |-> "err", err |-> e, data |-> <<>>] : e \in TransportErrors}
        \cup {[kind |-> "ok", err |-> 0, data |-> x] : x \in Datas}

Decoders == {1, 2}

NumReady(d) == Cardinality({i \in 1..Len(recvs[d]) : recvs[d][i].res.kind # "pending"})
NumPending(d) == Cardinality({i \in 1..Len(recvs[d]) : recvs[d][i].res.kind = "pending"})

\* The channel answers a poll_read of decoder d with item: not ready, or
\* the next ready result of the stream (chosen now if none is there yet).
Receive(d, item) ==
    \/ /\ item = Pending
       /\ NumPending(d) < MaxPending
       /\ stream' = stream
    \/ /\ NumReady(d) < Len(stream)
       /\ item = stream[NumReady(d) + 1]
       /\ stream' = stream
    \/ /\ NumReady(d) = Len(stream)
       /\ Len(stream) < MaxReady
       /\ item \in Items
       /\ stream' = Append(stream, item)

Logged(d, stage, buflen, item, count) ==
    recvs' = [recvs EXCEPT ![d] =
                 Append(@, [stage |-> stage, buflen |-> buflen, res |-> item, count |-> count])]

Returns(d, kind, err, req) ==
    /\ rets' = [rets EXCEPT ![d] = Append(@, [kind |-> kind, err |-> err, req |-> req])]
    /\ pc' = [pc EXCEPT ![d] = "idle"]

Panics(d) == pc' = [pc EXCEPT ![d] = "panicked"] /\ UNCHANGED rets

\* ----------------------------------------------------------- the decoder
\* A poll that reports every transport error as EINVAL.
question_mark_as_einval(e) == EINVAL

\* The `?` on the io::Result of poll_read: the error is returned as it is.
question_mark(e) == e

\* The ready results a poll from this state may still ask for.
ReadsAhead(s) == IF s \in {"Init", "ReadingHeader"} THEN 2 ELSE IF s = "ReadingArg" THEN 1 ELSE 0

\* The executor calls ReadRequest::poll.
ReadRequest_poll(d) ==
    /\ pc[d] = "idle"
    /\ NumReady(d) + ReadsAhead(state[d]) <= MaxReady
    /\ pc' = [pc EXCEPT ![d] = "polling"]
    /\ UNCHANGED <<state, header, arg, rets, recvs, stream, sendVars, overflow_checks, pureVars>>

\* ReadRequestState::Init
ReadRequest_Init(d) ==
    /\ pc[d] = "polling" /\ state[d] = "Init"
    /\ header' = [header EXCEPT ![d] = IF @ = <<>> THEN <<zeroed>> ELSE @]
    /\ state' = [state EXCEPT ![d] = "ReadingHeader"]
    /\ UNCHANGED <<arg, pc, rets, recvs, stream, sendVars, overflow_checks, pureVars>>

\* A decoder that treats a full header as the whole request.
state_after_header_done == "Done"

\* me.state after a full header read
state_after_header == "ReadingArg"

\* A header check that only rejects an empty read.
header_short_only_empty(count) == count < 1

\* count < mem::size_of::<InHeader>(): the header read was short.
header_short(count) == count < InHeaderSize

\* ReadRequestState::ReadingHeader
ReadRequest_ReadingHeader(d) ==
    /\ pc[d] = "polling" /\ state[d] = "ReadingHeader"
    /\ IF header[d] = <<>>
       THEN Panics(d) /\ UNCHANGED <<state, header, arg, recvs, stream>>
       ELSE \E item \in Items \cup {Pending} :
            /\ Receive(d, item)
            /\ LET rd == poll_read(header[d][1], item)
               IN  CASE item.kind = "pending" ->
                        /\ Logged(d, "header", InHeaderSize, item, 0)
                        /\ Returns(d, "pending", 0, <<>>)
                        /\ UNCHANGED <<state, header, arg>>
                     [] item.kind = "err" ->
                        /\ Logged(d, "header", InHeaderSize, item, 0)
                        /\ Returns(d, "err", question_mark(item.err), <<>>)
                        /\ UNCHANGED <<state, header, arg>>
                     [] item.kind = "ok" ->
                        /\ Logged(d, "header", InHeaderSize, item, rd.count)
                        /\ header' = [header EXCEPT ![d] = <<rd.buf>>]
                        /\ IF header_short(rd.count)
                           THEN /\ Returns(d, "err", EINVAL, <<>>)
                                /\ UNCHANGED <<state, arg>>
                           ELSE /\ state' = [state EXCEPT ![d] = state_after_header]
                                /\ IF arg[d] # <<>>
                                   THEN UNCHANGED <<arg, pc, rets>>
                                   ELSE LET al == arg_len(rd.buf)
                                        IN  IF al.panic
                                            THEN Panics(d) /\ UNCHANGED arg
                                            ELSE \E g \in Garbage :
                                                 LET a == Vec_with_capacity(al.val, g)
                                                 IN  IF a.panic
                                                     THEN Panics(d) /\ UNCHANGED arg
                                                     ELSE /\ arg' = [arg EXCEPT ![d] = <<a.vec>>]
                                                          /\ UNCHANGED <<pc, rets>>
    /\ UNCHANGED <<sendVars, overflow_checks, pureVars>>

\* An argument read that accepts a read one byte short.
arg_read_done_off_by_one(v, count) ==
    IF count + 1 < v.len
    THEN [ok |-> FALSE, vec |-> Guard_drop(v)]
    ELSE [ok |-> TRUE, vec |-> set_len(v, count)]

\* An argument read without the short-read check and the final set_len.
arg_read_done_unchecked(v, count) == [ok |-> TRUE, vec |-> v]

\* An argument read that gives the buffer's memory back on a short read.
arg_read_done_shrinks(v, count) ==
    IF count < v.len
    THEN [ok |-> FALSE, vec |-> [cap |-> count, len |-> 0, bytes |-> SubSeq(v.bytes, 1, count)]]
    ELSE [ok |-> TRUE, vec |-> set_len(v, count)]

\* The outcome of the argument read for a ready result that filled count
\* bytes of the buffer v (whose len is its capacity): a short read, or the
\* vector with its length set to count.
arg_read_done(v, count) ==
    IF count < v.len
    THEN [ok |-> FALSE, vec |-> Guard_drop(v)]
    ELSE [ok |-> TRUE, vec |-> set_len(v, count)]

\* ReadRequestState::ReadingArg
ReadRequest_ReadingArg(d) ==
    /\ pc[d] = "polling" /\ state[d] = "ReadingArg"
    /\ IF arg[d] = <<>>
       THEN Panics(d) /\ UNCHANGED <<state, header, arg, recvs, stream>>
       ELSE \E item \in Items \cup {Pending} :
            /\ Receive(d, item)
            /\ LET v0 == set_len(arg[d][1], arg[d][1].cap)
                   rd == poll_read(Vec_contents(v0), item)
                   v1 == [v0 EXCEPT !.bytes = rd.buf]
                   fin == arg_read_done(v1, rd.count)
               IN  CASE item.kind = "pending" ->
                        /\ Logged(d, "arg", v0.len, item, 0)
                        /\ arg' = [arg EXCEPT ![d] = <<Guard_drop(v0)>>]
                        /\ Returns(d, "pending", 0, <<>>)
                        /\ UNCHANGED <<state, header>>
                     [] item.kind = "err" ->
                        /\ Logged(d, "arg", v0.len, item, 0)
                        /\ arg' = [arg EXCEPT ![d] = <<Guard_drop(v0)>>]
                        /\ Returns(d, "err", question_mark(item.err), <<>>)
                        /\ UNCHANGED <<state, header>>
                     [] item.kind = "ok" /\ ~fin.ok ->
                        /\ Logged(d, "arg", v0.len, item, rd.count)
                        /\ arg' = [arg EXCEPT ![d] = <<fin.vec>>]
                        /\ Returns(d, "err", EINVAL, <<>>)
                        /\ UNCHANGED <<state, header>>
                     [] item.kind = "ok" /\ fin.ok ->
                        /\ Logged(d, "arg", v0.len, item, rd.count)
                        /\ state' = [state EXCEPT ![d] = "Done"]
                        /\ header' = [header EXCEPT ![d] = <<>>]
                        /\ arg' = [arg EXCEPT ![d] = <<>>]
                        /\ Returns(d, "ok", 0,
                                   <<[header |-> header[d][1], arg |-> Vec_contents(fin.vec)]>>)
    /\ UNCHANGED <<sendVars, overflow_checks, pureVars>>

\* A fused decoder: a poll after the Request answers not-ready.
ReadRequest_Done_fused(d) ==
    /\ pc[d] = "polling" /\ state[d] = "Done"
    /\ Returns(d, "pending", 0, <<>>)
    /\ UNCHANGED <<state, header, arg, recvs, stream, sendVars, overflow_checks, pureVars>>

\* ReadRequestState::Done => unreachable!()
ReadRequest_Done(d) ==
    /\ pc[d] = "polling" /\ state[d] = "Done"
    /\ Panics(d)
    /\ UNCHANGED <<state, header, arg, recvs, stream, sendVars, overflow_checks, pureVars>>

\* The ReadRequest is dropped between polls.
ReadRequest_drop(d) ==
    /\ pc[d] = "idle"
    /\ pc' = [pc EXCEPT ![d] = "dropped"]
    /\ UNCHANGED <<state, header, arg, rets, recvs, stream, sendVars, overflow_checks, pureVars>>

vars == <<overflow_checks, sendVars, decVars, pureVars>>

Init ==
    /\ overflow_checks \in BOOLEAN
    /\ snd_st = "none"
    /\ snd_args = <<>>
    /\ snd_header = <<>>
    /\ snd_data = <<>>
    /\ snd_ret = <<>>
    /\ calls = <<>>
    /\ wire = <<>>
    /\ log = <<>>
    /\ state = [d \in Decoders |-> "Init"]
    /\ header = [d \in Decoders |-> <<>>]
    /\ arg = [d \in Decoders |-> <<>>]
    /\ pc = [d \in Decoders |-> "idle"]
    /\ rets = [d \in Decoders |-> <<>>]
    /\ recvs = [d \in Decoders |-> <<>>]
    /\ stream = <<>>
    /\ al_in = <<>>
    /\ al_out = <<>>

SendMsgCall ==
    /\ snd_st = "none"
    /\ \E unique \in UniqueSet, error \in ErrorSet, data \in SeqsUpTo(ChunkSet, MaxChunks) :
        send_msg(unique, error, data)

NextSend == SendMsgCall \/ SendMsg_poll

SpecSend == Init /\ [][NextSend]_vars

Step(d) ==
    \/ ReadRequest_poll(d)
    \/ ReadRequest_Init(d)
    \/ ReadRequest_ReadingHeader(d)
    \/ ReadRequest_ReadingArg(d)
    \/ ReadRequest_Done(d)
    \/ ReadRequest_drop(d)

\* One decoder.
NextDecode == Step(1)

SpecDecode == Init /\ [][NextDecode]_vars

\* The ready results the channel delivers to the pair of decoders.
PairItems ==
    { [kind |-> "err", err |-> 19, data |-> <<>>],
      [kind |-> "ok", err |-> 0, data |-> HeaderBytes(40, 1, 42)],
      [kind |-> "ok", err |-> 0, data |-> HeaderBytes(42, 1, 42)],
      [kind |-> "ok", err |-> 0, data |-> HeaderBytes(8, 1, 42)],
      [kind |-> "ok", err |-> 0, data |-> SubSeq(HeaderBytes(42, 1, 42), 1, 10)],
      [kind |-> "ok", err |-> 0, data |-> <<9>>],
      [kind |-> "ok", err |-> 0, data |-> <<7, 8>>] }

StreamOf(S) == \A i \in 1..Len(stream') : stream'[i] \in S

\* Two independent decoders over the same stream of ready results, polled
\* by a single-threaded executor: a poll runs to its return before the
\* next poll starts.
PairStep(d) ==
    \/ /\ \A e \in Decoders : pc[e] # "polling"
       /\ NumReady(d) + ReadsAhead(state[d]) <= MaxPairReady
       /\ ReadRequest_poll(d)
    \/ ReadRequest_Init(d)
    \/ ReadRequest_ReadingHeader(d) /\ StreamOf(PairItems)
    \/ ReadRequest_ReadingArg(d) /\ StreamOf(PairItems)
    \/ ReadRequest_Done(d)

NextPair == \E d \in Decoders : PairStep(d)

SpecPair == Init /\ [][NextPair]_vars

\* One decoder that the executor keeps polling and never drops, on a
\* channel that is not ready at most MaxPending times: every step of a
\* poll that can be taken is taken eventually.
LiveStep(d) ==
    \/ ReadRequest_poll(d)
    \/ ReadRequest_Init(d)
    \/ ReadRequest_ReadingHeader(d) /\ StreamOf(PairItems)
    \/ ReadRequest_ReadingArg(d) /\ StreamOf(PairItems)
    \/ ReadRequest_Done(d)

NextLive == LiveStep(1)

SpecLive == Init /\ [][NextLive]_vars /\ WF_vars(NextLive)

\* InHeader::arg_len called on a header with any length and raw opcode.
LenSet ==
    { <<0, 0>>, <<8, 0>>, <<39, 0>>, <<40, 0>>, <<41, 0>>, <<42, 0>>, <<80, 0>>,
      <<4136, 0>>, <<65535, 0>>, <<0, 1>>, <<0, 32768>>, <<65535, 65535>> }

OpcodeSet ==
    { <<0, 0>>, <<1, 0>>, <<7, 0>>, <<15, 0>>, <<FUSE_WRITE, 0>>, <<17, 0>>,
      <<FUSE_NOTIFY_REPLY, 0>>, <<42, 0>>, <<9999, 0>>, <<FUSE_WRITE, 1>>,
      <<65535, 65535>> }

HeaderWith(len, opcode) ==
    le_bytes(len) \o le_bytes(opcode) \o SubSeq(HeaderBytes(0, 0, 42), 9, InHeaderSize)

arg_len_call ==
    /\ al_in = <<>>
    /\ \E len \in LenSet, opcode \in OpcodeSet :
        /\ al_in' = <<HeaderWith(len, opcode)>>
        /\ al_out' = <<arg_len(HeaderWith(len, opcode))>>
    /\ UNCHANGED <<overflow_checks, sendVars, decVars>>

NextArgLen == arg_len_call

SpecArgLen == Init /\ [][NextArgLen]_vars

Next == NextSend \/ NextPair \/ NextArgLen

Spec == Init /\ [][Next]_vars

\* =================================================================== claims
\* Mathematics used to state the claims, independent of the code's arithmetic.

\* Byte k (from 0) of the two's-complement little-endian form of a small integer.
IntByte(n, k) == (n \div (256 ^ k)) % 256

\* Byte k (from 0) of a wide integer.
WideByte(a, k) ==
    IF k % 2 = 0 THEN a[(k \div 2) + 1] % 256 ELSE a[(k \div 2) + 1] \div 256

\* The exact sum 16 + sum of the chunk lengths, in six limbs (no wrap-around).
RECURSIVE ExactTotal(_)
ExactTotal(data) ==
    IF data = <<>> THEN W(OutHeaderSize) \o <<0, 0>>
    ELSE SubSeq(AddFrom(ExactTotal(Tail(data)), Head(data).len \o <<0, 0>>, 1, 0), 1, 6)

FitsU32(t) == \A i \in 3..Len(t) : t[i] = 0

\* The number of payload bytes of a materialisable chunk list.
RECURSIVE SmallTotal(_)
SmallTotal(data) ==
    IF data = <<>> THEN 0 ELSE Head(data).len[1] + SmallTotal(Tail(data))

\* The j-th byte (from 1) of the payload: the bytes of the chunks, in order.
RECURSIVE PayloadByte(_, _)
PayloadByte(data, j) ==
    IF j <= Head(data).len[1] THEN (Head(data).seed + j - 1) % 256
    ELSE PayloadByte(Tail(data), j - Head(data).len[1])

ExpectedWire(a) ==
    LET n == OutHeaderSize + SmallTotal(a.data)
    IN  [j \in 1..n |->
            IF j <= 4 THEN IntByte(n, j - 1)
            ELSE IF j <= 8 THEN IntByte(a.error, j - 5)
            ELSE IF j <= 16 THEN WideByte(a.unique, j - 9)
            ELSE PayloadByte(a.data, j - 16)]

\* C1: whenever the total size fits in u32, send_msg builds the message (no
\* panic), and once a poll has succeeded the Sender has put exactly one
\* message on the wire: len = 16 + sum of chunk lengths as a little-endian
\* u32 in bytes 0..4, error in bytes 4..8, unique in bytes 8..16, then the
\* chunks in the caller's order.
C1_SendWritesHeaderThenChunks ==
    /\ (snd_args # <<>> /\ FitsU32(ExactTotal(snd_args[1].data))) => snd_st # "panic"
    /\ snd_st = "ok" => wire = ExpectedWire(snd_args[1])

C1_Witness ==
    /\ snd_st = "ok"
    /\ Len(snd_args[1].data) = 3
    /\ snd_args[1].error < 0
    /\ Len(wire) = OutHeaderSize + 9

\* C7: when 16 + sum of chunk lengths exceeds the range of u32, send_msg
\* panics while building the message, before any transmission is issued.
C7_OverflowAlwaysPanics ==
    (snd_args # <<>> /\ ~FitsU32(ExactTotal(snd_args[1].data)))
        => (snd_st = "panic" /\ snd_header = <<>> /\ calls = <<>>)

\* C8 as stated: the header on the wire is unique (8 bytes), error (4 bytes),
\* length (4 bytes), then the payload.
C8_WireOrderUniqueErrorLength ==
    snd_st = "ok" =>
        /\ \A k \in 0..7 : wire[1 + k] = WideByte(snd_args[1].unique, k)
        /\ \A k \in 0..3 : wire[9 + k] = IntByte(snd_args[1].error, k)
        /\ \A k \in 0..3 : wire[13 + k] = IntByte(Len(wire), k)

\* C8 amended: the header on the wire is length (u32, bytes 0..4), error
\* (i32, bytes 4..8), unique (u64, bytes 8..16), then payload chunk 1 to
\* chunk n; length = header size + total chunk bytes.
C8_WireOrderLengthErrorUnique ==
    snd_st = "ok" =>
        /\ Len(wire) = OutHeaderSize + SmallTotal(snd_args[1].data)
        /\ \A k \in 0..3 : wire[1 + k] = IntByte(Len(wire), k)
        /\ \A k \in 0..3 : wire[5 + k] = IntByte(snd_args[1].error, k)
        /\ \A k \in 0..7 : wire[9 + k] = WideByte(snd_args[1].unique, k)
        /\ SubSeq(wire, OutHeaderSize + 1, Len(wire)) = concat(snd_args[1].data)

\* C4: for every header, arg_len is the fixed size of the write prefix when
\* the opcode is FUSE_WRITE or FUSE_NOTIFY_REPLY, and header.length minus
\* size_of(InHeader) otherwise; it is a well-defined non-negative value for
\* every length, also one below the header size.
C4_ArgLenTotal ==
    al_out # <<>> =>
        LET h   == al_in[1]
            raw == <<h[5] + 256 * h[6], h[7] + 256 * h[8]>>
            len == <<h[1] + 256 * h[2], h[3] + 256 * h[4]>>
            out == al_out[1]
        IN  /\ ~out.panic
            /\ IF raw \in {<<FUSE_WRITE, 0>>, <<FUSE_NOTIFY_REPLY, 0>>}
               THEN out.val = W(WriteInSize)
               ELSE AddFrom(out.val, W(InHeaderSize), 1, 0) = len \o <<0, 0, 0>>

\* ---- the decoder's claims
Last(q) == q[Len(q)]

\* The ready header receives of decoder d, as indices into recvs[d].
ReadyHeaderRecvs(d) ==
    {i \in 1..Len(recvs[d]) : recvs[d][i].stage = "header" /\ recvs[d][i].res.kind # "pending"}

MaxOf(S) == CHOOSE m \in S : \A x \in S : x <= m

\* The last poll of d ended on a full header receive followed by an argument
\* receive that reported exactly arg_len(header) bytes.
FullHeaderExactArg(d) ==
    /\ ReadyHeaderRecvs(d) # {}
    /\ LET hr == recvs[d][MaxOf(ReadyHeaderRecvs(d))]
           ar == Last(recvs[d])
       IN  /\ hr.res.kind = "ok"
           /\ hr.count >= InHeaderSize
           /\ ar.stage = "arg"
           /\ ar.res.kind = "ok"
           /\ ~arg_len(SubSeq(hr.res.data, 1, InHeaderSize)).panic
           /\ W(ar.count) = arg_len(SubSeq(hr.res.data, 1, InHeaderSize)).val

\* C2: a poll that completes yields a Request iff the header receive
\* reported at least size_of(InHeader) bytes and the argument receive
\* reported exactly arg_len(header) bytes; every other completed poll
\* returns an error (EINVAL for a short read, else the transport error)
\* and no Request.
C2_RequestIffFullHeaderAndExactArg ==
    \A d \in Decoders :
        (pc[d] \in {"idle", "dropped"} /\ rets[d] # <<>> /\ Last(rets[d]).kind # "pending") =>
            LET r  == Last(rets[d])
                rc == Last(recvs[d])
            IN  /\ (r.kind = "ok") <=> FullHeaderExactArg(d)
                /\ r.kind = "ok" => Len(r.req) = 1
                /\ r.kind # "ok" =>
                      /\ r.kind = "err"
                      /\ r.req = <<>>
                      /\ r.err = (IF rc.res.kind = "err" THEN rc.res.err ELSE EINVAL)

C2_WitnessRequest ==
    /\ pc[1] = "idle" /\ rets[1] # <<>>
    /\ Last(rets[1]).kind = "ok"
    /\ Len(Last(rets[1]).req[1].arg) = 3

\* C3: every Request a poll yields carries an argument buffer whose length
\* is arg_len of the header it carries.
C3_ArgLengthIsArgLen ==
    \A d \in Decoders : \A i \in 1..Len(rets[d]) :
        rets[d][i].kind = "ok" =>
            LET q == rets[d][i].req[1]
            IN  /\ ~arg_len(q.header).panic
                /\ W(Len(q.arg)) = arg_len(q.header).val

\* A Request for a FUSE_WRITE header: 40 argument bytes, whatever header.len says.
C3_Witness ==
    /\ rets[1] # <<>>
    /\ Last(rets[1]).kind = "ok"
    /\ InHeader_opcode(Last(rets[1]).req[1].header) = <<FUSE_WRITE>>
    /\ Len(Last(rets[1]).req[1].arg) = WriteInSize

\* C5: whenever the decoder holds an argument buffer between steps of the
\* poll loop (after a not-ready, failed or short argument receive, and when
\* it is dropped afterwards) the buffer's length is zero and its capacity
\* is the capacity it was allocated with, arg_len(header).
C5_ArgLenZeroUnlessFilled ==
    \A d \in Decoders :
        arg[d] # <<>> =>
            /\ arg[d][1].len = 0
            /\ header[d] # <<>>
            /\ W(arg[d][1].cap) = arg_len(header[d][1]).val
            /\ Len(arg[d][1].bytes) = arg[d][1].cap

\* A decoder dropped after a short argument read into a 3-byte buffer.
C5_Witness ==
    /\ pc[1] = "dropped"
    /\ arg[1] # <<>>
    /\ arg[1][1].cap = 3
    /\ Last(recvs[1]).stage = "arg"
    /\ Last(recvs[1]).res.kind = "ok"
    /\ Last(recvs[1]).count = 2

\* The results the channel gave decoder d, in order.
Results(d) == [i \in 1..Len(recvs[d]) |-> recvs[d][i].res]

\* The poll of d panicked while decoding (not on a poll after Done).
Aborted(d) == pc[d] = "panicked" /\ state[d] # "Done"

\* C6: two decoders that were given the same sequence of receive results
\* have returned the same sequence of poll results: equal Requests (header
\* bytes and argument bytes) or equal errors; they are in the same state,
\* and both or neither panicked while decoding.
C6_SameResultsSameOutcome ==
    (pc[1] # "polling" /\ pc[2] # "polling" /\ Results(1) = Results(2)) =>
        (rets[1] = rets[2] /\ state[1] = state[2] /\ (Aborted(1) <=> Aborted(2)))

C6_Witness ==
    /\ rets[1] # <<>> /\ rets[2] # <<>>
    /\ Results(1) = Results(2)
    /\ NumPending(1) = 1
    /\ Last(rets[1]).kind = "ok" /\ Last(rets[2]).kind = "ok"
    /\ Len(Last(rets[1]).req[1].arg) = 2

\* The error each failing receive must surface as: the transport error
\* itself, or EINVAL for a short read.
RECURSIVE ErrorsDue(_)
ErrorsDue(rs) ==
    IF rs = <<>> THEN <<>>
    ELSE LET r == Head(rs)
         IN  (IF r.res.kind = "err" THEN <<r.res.err>>
              ELSE IF r.res.kind = "ok" /\ r.count < r.buflen THEN <<EINVAL>>
              ELSE <<>>) \o ErrorsDue(Tail(rs))

RECURSIVE ErrorsReturned(_)
ErrorsReturned(rs) ==
    IF rs = <<>> THEN <<>>
    ELSE (IF Head(rs).kind = "err" THEN <<Head(rs).err>> ELSE <<>>)
             \o ErrorsReturned(Tail(rs))

NumOk(rs) == Cardinality({i \in 1..Len(rs) : rs[i].kind = "ok"})

\* C9: a transport error of the header receive or of the argument receive
\* is what that poll returns, unchanged; the errors the polls have returned
\* are the errors of the failing receives, in order (so the first error
\* surfaced is the first one met); and a poll that met an error returned no
\* Request: every poll returned exactly one of not-ready, error, Request.
C9_TransportErrorUnchanged ==
    \A d \in Decoders :
        /\ ErrorsReturned(rets[d]) = ErrorsDue(recvs[d])
        /\ Len(rets[d]) = NumPending(d) + Len(ErrorsDue(recvs[d])) + NumOk(rets[d])
        /\ \A i \in 1..Len(rets[d]) : rets[d][i].kind = "err" => rets[d][i].req = <<>>

\* A transport error (ENODEV) at the argument receive, after a full header.
C9_Witness ==
    /\ state[1] = "ReadingArg"
    /\ pc[1] = "idle"
    /\ Last(recvs[1]).stage = "arg"
    /\ Last(recvs[1]).res.kind = "err"
    /\ Last(rets[1]).kind = "err"
    /\ Last(rets[1]).err = 19

Forward ==
    { <<"Init", "ReadingHeader">>, <<"ReadingHeader", "ReadingArg">>,
      <<"ReadingArg", "Done">> }

\* C10: every step that changes a decoder's state moves it to the next
\* state in the order Init, ReadingHeader, ReadingArg, Done.
C10_StateOnlyForward ==
    [][\A d \in Decoders : state'[d] # state[d] => <<state[d], state'[d]>> \in Forward]_vars

C10_Witness == state[1] = "Done" /\ NumPending(1) = 1 /\ Len(rets[1]) = 3

C8_Witness ==
    /\ snd_st = "ok"
    /\ snd_args[1].unique = W(42)
    /\ snd_args[1].error = 4
    /\ Len(snd_args[1].data) = 2
    /\ Len(wire) = OutHeaderSize + 7

\* The index in recvs[d] of the first receive that failed (a transport error
\* or a short read), or 0 when none has.
FirstFailure(d) ==
    LET F == {i \in 1..Len(recvs[d]) :
                 \/ recvs[d][i].res.kind = "err"
                 \/ recvs[d][i].res.kind = "ok" /\ recvs[d][i].count < recvs[d][i].buflen}
    IN  IF F = {} THEN 0 ELSE CHOOSE m \in F : \A x \in F : m <= x

\* C11: once a poll of a decoder has returned an error the decode is
\* aborted: the decoder stays in the state the error was met in, no later
\* receive makes progress, and no later poll yields a Request.
C11_NoProgressAfterError ==
    \A d \in Decoders :
        FirstFailure(d) # 0 =>
            /\ state[d] = (IF recvs[d][FirstFailure(d)].stage = "header"
                           THEN "ReadingHeader" ELSE "ReadingArg")
            /\ \A i \in 1..Len(rets[d]) : \A j \in 1..Len(rets[d]) :
                   (i < j /\ rets[d][i].kind = "err") => rets[d][j].kind # "ok"

\* The decoders that have had a full header read: a ready header receive
\* that reported at least the header's size.
FullHeaderRead(d) ==
    \E i \in 1..Len(recvs[d]) :
        /\ recvs[d][i].stage = "header" /\ recvs[d][i].res.kind = "ok"
        /\ recvs[d][i].count >= InHeaderSize

\* C12: until a header receive has reported at least the header's size the
\* argument buffer is not allocated and not passed to a receive, and the
\* state is Init or ReadingHeader; a header receive that reported fewer
\* bytes ended its poll with the short-read error, still in ReadingHeader.
C12_NoArgBeforeFullHeader ==
    \A d \in Decoders :
        /\ ~FullHeaderRead(d) =>
               /\ arg[d] = <<>>
               /\ state[d] \in {"Init", "ReadingHeader"}
               /\ \A i \in 1..Len(recvs[d]) : recvs[d][i].stage = "header"
        /\ (/\ recvs[d] # <<>>
            /\ Last(recvs[d]).stage = "header" /\ Last(recvs[d]).res.kind = "ok"
            /\ Last(recvs[d]).count < InHeaderSize) =>
               /\ Last(rets[d]).kind = "err" /\ Last(rets[d]).err = EINVAL
               /\ state[d] = "ReadingHeader"

\* A header receive reported ten bytes and the poll failed with the
\* short-read error before any argument buffer existed.
C12_Witness ==
    /\ Len(recvs[1]) = 1 /\ recvs[1][1].stage = "header" /\ recvs[1][1].count = 10
    /\ ~FullHeaderRead(1)
    /\ rets[1] = <<[kind |-> "err", err |-> EINVAL, req |-> <<>>]>>
    /\ state[1] = "ReadingHeader" /\ arg[1] = <<>>

\* The step is a poll of decoder d returning not-ready.
ReturnsPending(d) ==
    /\ Len(rets'[d]) = Len(rets[d]) + 1
    /\ rets'[d][Len(rets'[d])].kind = "pending"

\* The step logs a receive of decoder d that follows a not-ready receive.
ReceivesAfterPending(d) ==
    /\ Len(recvs'[d]) = Len(recvs[d]) + 1
    /\ recvs[d] # <<>> /\ Last(recvs[d]).res.kind = "pending"

\* C13: a poll that returns not-ready leaves the decoder's progress as it
\* was: state and header record are unchanged; at the header stage the
\* state is ReadingHeader and no argument buffer exists; at the argument
\* stage the state is ReadingArg and the buffer keeps its capacity and
\* contents with length zero. The receive after a not-ready one is for the
\* same stage and the same buffer size.
C13_PendingKeepsProgress ==
    [][\A d \in Decoders :
          /\ ReturnsPending(d) =>
                /\ state'[d] = state[d] /\ header'[d] = header[d]
                /\ state[d] \in {"ReadingHeader", "ReadingArg"}
                /\ state[d] = "ReadingHeader" => arg'[d] = <<>>
                /\ state[d] = "ReadingArg" =>
                       /\ arg'[d] # <<>> /\ arg[d] # <<>>
                       /\ arg'[d][1].cap = arg[d][1].cap
                       /\ arg'[d][1].bytes = arg[d][1].bytes
                       /\ arg'[d][1].len = 0
          /\ ReceivesAfterPending(d) =>
                /\ Last(recvs'[d]).stage = Last(recvs[d]).stage
                /\ Last(recvs'[d]).buflen = Last(recvs[d]).buflen]_vars

\* A not-ready argument receive was followed by a second argument receive
\* into the same two-byte buffer, and a not-ready poll was returned.
C13_Witness ==
    /\ Len(recvs[1]) = 3
    /\ recvs[1][2].stage = "arg" /\ recvs[1][2].res.kind = "pending"
    /\ recvs[1][3].stage = "arg" /\ recvs[1][3].buflen = 2
    /\ rets[1][1].kind = "pending"

\* The step is a poll of the SendMsg operation.
SendPolled ==
    snd_st \in {"created", "pending"} /\ <<calls, snd_ret, snd_st>> # <<calls', snd_ret', snd_st'>>

\* C14: each poll of a send makes exactly one Sender call, carrying the
\* header built by send_msg (the caller's unique and error, length = header
\* size + payload bytes) and the caller's chunk list, the same on every
\* re-poll; the poll answers what the Sender answered; the debug record is
\* emitted exactly when the Sender reported success, and never on an error
\* or a not-ready answer.
C14_OneTransmissionPerPoll ==
    [][SendPolled =>
          /\ Len(calls') = Len(calls) + 1
          /\ \A i \in 1..Len(calls') :
                /\ calls'[i].payload = snd_args[1].data
                /\ calls'[i].header.unique = snd_args[1].unique
                /\ calls'[i].header.error = snd_args[1].error
                /\ FitsU32(ExactTotal(snd_args[1].data)) =>
                       calls'[i].header.len = SubSeq(ExactTotal(snd_args[1].data), 1, 2)
                /\ calls'[i] = calls'[1]
          /\ snd_st' = snd_ret'[1].kind
          /\ snd_st' = "ok" =>
                /\ wire' # wire
                /\ log' = Append(log, [unique |-> snd_args[1].unique, error |-> snd_args[1].error])
                /\ Len(log') = 1
          /\ snd_st' = "err" =>
                /\ snd_ret'[1].err \in TransportErrors
                /\ wire' = wire /\ log' = log /\ log = <<>>
          /\ snd_st' = "pending" => wire' = wire /\ log' = log /\ log = <<>>]_vars

\* A send polled twice: not ready first, then transmitted, with one record.
C14_Witness ==
    /\ Len(calls) = 2 /\ snd_st = "ok" /\ Len(log) = 1
    /\ Len(snd_args[1].data) = 2

\* C15: a decoder yields at most one Request. Once a poll has returned a
\* Request the state is Done and header and arg are moved out; the Request
\* is the last thing the decoder returned and the argument receive that
\* completed it is the last receive it issued, so a further poll neither
\* receives nor yields: it panics.
C15_AtMostOneRequest ==
    \A d \in Decoders :
        /\ NumOk(rets[d]) <= 1
        /\ (NumOk(rets[d]) = 1 \/ state[d] = "Done") =>
               /\ state[d] = "Done" /\ header[d] = <<>> /\ arg[d] = <<>>
               /\ Last(rets[d]).kind = "ok"
               /\ Last(recvs[d]).stage = "arg" /\ Last(recvs[d]).res.kind = "ok"
               /\ Last(recvs[d]).count = Len(Last(rets[d]).req[1].arg)
        /\ (pc[d] = "panicked" /\ state[d] = "Done") => NumOk(rets[d]) = 1

\* A decoder was polled again after its Request and panicked.
C15_Witness ==
    /\ pc[1] = "panicked" /\ state[1] = "Done"
    /\ Len(rets[1]) = 2 /\ rets[1][2].kind = "ok" /\ Len(recvs[1]) = 3

\* Decoder d has been handed bytes by a ready header receive.
HeaderBytesWritten(d) ==
    \E i \in 1..Len(recvs[d]) : recvs[d][i].res.kind = "ok" /\ recvs[d][i].count > 0

\* C16: the header record handed to the first header receive has every
\* byte zero: in ReadingHeader, until a receive has written bytes, the
\* record is InHeaderSize zero bytes. Init creates it and moves to
\* ReadingHeader within the poll: a decoder in Init has returned nothing,
\* received nothing and has no record, and no poll returns in Init.
C16_FirstHeaderBufferZeroed ==
    \A d \in Decoders :
        /\ (state[d] = "ReadingHeader" /\ ~HeaderBytesWritten(d)) =>
               /\ Len(header[d]) = 1 /\ Len(header[d][1]) = InHeaderSize
               /\ \A i \in 1..InHeaderSize : header[d][1][i] = 0
        /\ state[d] = "Init" =>
               /\ header[d] = <<>> /\ rets[d] = <<>> /\ recvs[d] = <<>>
               /\ pc[d] \in {"idle", "polling", "dropped"}
        /\ rets[d] # <<>> => state[d] # "Init"

\* The first header receive was issued (and was not ready) on a zeroed
\* record.
C16_Witness ==
    /\ state[1] = "ReadingHeader" /\ Len(recvs[1]) = 1
    /\ recvs[1][1].stage = "header" /\ recvs[1][1].res.kind = "pending"
    /\ header[1] # <<>> /\ \A i \in 1..InHeaderSize : header[1][1][i] = 0

\* C17: in every reachable state the option fields match the state, so
\* the expect and unwrap calls of the poll cannot fail: ReadingHeader has
\* the header; ReadingArg has header and arg; Init has neither; Done has
\* had both taken.
C17_OptionsMatchState ==
    \A d \in Decoders :
        /\ state[d] = "Init" => header[d] = <<>> /\ arg[d] = <<>>
        /\ state[d] = "ReadingHeader" => header[d] # <<>>
        /\ state[d] = "ReadingArg" => header[d] # <<>> /\ arg[d] # <<>>
        /\ state[d] = "Done" => header[d] = <<>> /\ arg[d] = <<>>

\* C18: the argument buffer is allocated in one place only, the step from
\* ReadingHeader to ReadingArg, with capacity arg_len of the header just
\* read, and at most once: afterwards its capacity never changes, it is
\* only ever taken (on Done), and no buffer is allocated again. Once the
\* state is ReadingArg no header receive is issued and the header record
\* stays as it was validated until it is moved into the Request.
C18_ArgAllocatedOnceHeaderFrozen ==
    [][\A d \in Decoders :
          /\ (arg[d] = <<>> /\ arg'[d] # <<>>) =>
                /\ state[d] = "ReadingHeader" /\ state'[d] = "ReadingArg"
                /\ \A i \in 1..Len(recvs[d]) : recvs[d][i].stage = "header"
                /\ W(arg'[d][1].cap) = arg_len(header'[d][1]).val
          /\ (arg[d] # <<>> /\ arg'[d] # <<>>) => arg'[d][1].cap = arg[d][1].cap
          /\ (arg[d] # <<>> /\ arg'[d] = <<>>) => state'[d] = "Done"
          /\ state[d] \in {"ReadingArg", "Done"} =>
                /\ header'[d] = header[d] \/ (header'[d] = <<>> /\ state'[d] = "Done")
                /\ recvs'[d] # recvs[d] => Last(recvs'[d]).stage = "arg"
                /\ arg[d] = <<>> => arg'[d] = <<>>]_vars

\* An argument buffer of capacity two went through a not-ready receive and
\* a second receive that filled it, and the decoder is done.
C18_Witness ==
    /\ Len(recvs[1]) = 3 /\ state[1] = "Done"
    /\ recvs[1][2].stage = "arg" /\ recvs[1][2].res.kind = "pending"
    /\ recvs[1][3].stage = "arg" /\ recvs[1][3].buflen = 2

NotPending(r) == r.kind # "pending"

\* The ready results the channel gave decoder d, in order.
ReadyResults(d) == SelectSeq(Results(d), NotPending)

\* What the polls of decoder d returned other than not-ready, in order.
Finals(d) == SelectSeq(rets[d], NotPending)

\* The receive decoder d is at: a decoder not polled yet is at its header
\* receive, as one in ReadingHeader is.
Stage(d) == IF state[d] = "Init" THEN "ReadingHeader" ELSE state[d]

\* C19: the outcome of a decode does not depend on the not-ready results:
\* two decoders that were given the same ready results, with not-ready
\* results interleaved differently, have returned the same Request or
\* error, are at the same stage, and both or neither panicked while
\* decoding.
C19_PendingDoesNotChangeOutcome ==
    (pc[1] # "polling" /\ pc[2] # "polling" /\ ReadyResults(1) = ReadyResults(2)) =>
        (Finals(1) = Finals(2) /\ Stage(1) = Stage(2) /\ (Aborted(1) <=> Aborted(2)))

\* One decoder met its not-ready result at the header receive, the other
\* at the argument receive; both yielded the Request with two argument
\* bytes.
C19_Witness ==
    /\ Len(recvs[1]) = 3 /\ recvs[1][1].res.kind = "pending"
    /\ Len(recvs[2]) = 3 /\ recvs[2][2].res.kind = "pending"
    /\ Finals(1) # <<>> /\ Finals(1)[1].kind = "ok"
    /\ Finals(2) # <<>> /\ Finals(2)[1].kind = "ok"
    /\ Len(Finals(2)[1].req[1].arg) = 2

\* C20: a decoder that is polled again and again, on a channel that ends
\* up ready for each receive, eventually returns a final outcome (a Request
\* or an error), having been given at most two ready results.
C20_EventuallyOutcome == <>(Finals(1) # <<>> /\ NumReady(1) <= 2)

====
